---- MODULE Spec2Model ----
(***************************************************************************)
(* School-management backend: User accounts with role-driven identifier    *)
(* generation (apps/acounts/models.py) and the soft-delete mixin with its  *)
(* two query managers (apps/common/models.py).                             *)
(*                                                                         *)
(* The database is two tables: users and profiles.  A table is a sequence  *)
(* of rows and a row's primary key is its index (auto-increment).  The     *)
(* requests are synchronous: one handler runs at a time, and the only      *)
(* handler that takes more than one step is User.save() while it loops in  *)
(* generate_employee_id() / generate_student_id(), one random draw a step. *)
(***************************************************************************)
EXTENDS Integers, Sequences, FiniteSets, TLC

VARIABLES
    users,      \* table of User rows, indexed by pk
    profiles,   \* table of UserProfile/StudentProfile/TeacherProfile rows
    now,        \* the clock read by timezone.now()
    pc,         \* where the running User.save() stands
    inst        \* the in-memory User instance that save() is working on

vars == <<users, profiles, now, pc, inst>>

----------------------------------------------------------------------------
\* Bounds of the model.

MaxUsers == 3
MaxProfiles == 1
\* users of the soft-delete specification, the owners of the profiles
MaxOwners == 1
MaxTime == 2
\* how many of the values of random.randint(10000, 99999) are drawn
NumDraws == 2

----------------------------------------------------------------------------
\* Values.

\* Python's None in a CharField; a string, so that it compares with strings.
None == "<None>"
\* Python's None in deleted_at; a set timestamp t is <<t>>.
NullTime == <<>>

ROLE_CHOICES == {"superadmin", "admin", "teacher", "student"}
EmployeeRoles == {"superadmin", "admin", "teacher"}
DefaultRole == "student"

RandLow == 10000
RandHigh == 99999
\* random.randint(10000, 99999), cut to the first NumDraws values
RandInts == {n \in RandLow..(RandLow + NumDraws - 1) : n <= RandHigh}

\* f"EMP{n}" / f"STD{n}"
FormatId(prefix, n) == prefix \o ToString(n)

\* Python truthiness of a CharField value: `not v`
Falsy(v) == v = None \/ v = ""

\* identifiers a caller passes to the constructor
CallerEmployeeIds == {None, "", "EMP10000"}
CallerStudentIds == {None, "", "STD10000"}

ProfileKinds == {"UserProfile", "StudentProfile", "TeacherProfile"}

\* User(role=..., employee_id=..., student_id=...): an unsaved instance
NewUser(role, emp, std) ==
    [pk |-> 0, role |-> role, employee_id |-> emp, student_id |-> std,
     is_deleted |-> FALSE, deleted_at |-> NullTime]

\* Profile(user=...): an unsaved instance
NewProfile(kind, user) ==
    [pk |-> 0, kind |-> kind, user |-> user,
     is_deleted |-> FALSE, deleted_at |-> NullTime]

NoInst == NewUser(DefaultRole, None, None)

----------------------------------------------------------------------------
\* Role predicates.

is_superuser_role_superadmin(self) == self.role = "superadmin"
is_superuser_role(self) == self.role = "superuser"
is_admin_role(self) == self.role = "admin"
is_teacher_role(self) == self.role = "teacher"
is_student_role(self) == self.role = "student"

----------------------------------------------------------------------------
\* Soft-delete mixin and managers.

soft_delete_fields_keep_time(self) == [self EXCEPT !.is_deleted = TRUE]
\* soft_delete(), the two assignments before self.save()
soft_delete_fields(self) ==
    [self EXCEPT !.is_deleted = TRUE, !.deleted_at = <<now>>]

restore_fields_keep_time(self) == [self EXCEPT !.is_deleted = FALSE]
\* restore(), the two assignments before self.save()
restore_fields(self) ==
    [self EXCEPT !.is_deleted = FALSE, !.deleted_at = NullTime]

\* ActiveManager.get_queryset(): the pks of the rows it returns
ActiveManager_get_queryset(table) ==
    {i \in DOMAIN table : table[i].is_deleted = FALSE}

DeletedManager_unfiltered(table) == DOMAIN table
\* DeletedManager.get_queryset(): the pks of the rows it returns
DeletedManager_get_queryset(table) ==
    {i \in DOMAIN table : table[i].is_deleted = TRUE}

----------------------------------------------------------------------------
\* The database layer under User.save().

\* User.objects.filter(employee_id=v).exists()
EmployeeIdExists(v) == \E i \in DOMAIN users : users[i].employee_id = v
\* User.objects.filter(student_id=v).exists()
StudentIdExists(v) == \E i \in DOMAIN users : users[i].student_id = v

\* unique=True on employee_id and on student_id: NULLs never collide, any
\* other value (the empty string too) may be held by one row only
UniqueOk(self) ==
    \A i \in DOMAIN users :
        i # self.pk =>
            /\ (self.employee_id # None => users[i].employee_id # self.employee_id)
            /\ (self.student_id # None => users[i].student_id # self.student_id)

\* super().save(): INSERT when the instance has no pk, UPDATE otherwise; an
\* IntegrityError leaves the table as it was
super_save(self) ==
    /\ users' = IF ~UniqueOk(self) THEN users
                ELSE IF self.pk = 0
                     THEN Append(users, [self EXCEPT !.pk = Len(users) + 1])
                     ELSE [users EXCEPT ![self.pk] = self]
    /\ pc' = "idle"
    /\ inst' = NoInst

IsNew_always(self) == TRUE
\* `not self.pk`
IsNew(self) == self.pk = 0

save_overwrites(self) ==
    IF IsNew(self) /\ self.role \in EmployeeRoles
    THEN /\ pc' = "generate_employee_id"
         /\ inst' = self
         /\ UNCHANGED users
    ELSE IF IsNew(self) /\ self.role = "student"
    THEN /\ pc' = "generate_student_id"
         /\ inst' = self
         /\ UNCHANGED users
    ELSE super_save(self)
\* User.save()
save(self) ==
    IF IsNew(self) /\ self.role \in EmployeeRoles /\ Falsy(self.employee_id)
    THEN /\ pc' = "generate_employee_id"
         /\ inst' = self
         /\ UNCHANGED users
    ELSE IF IsNew(self) /\ self.role = "student" /\ Falsy(self.student_id)
    THEN /\ pc' = "generate_student_id"
         /\ inst' = self
         /\ UNCHANGED users
    ELSE super_save(self)

EmployeeIdFree_any(v) == TRUE
\* the test of the loop in generate_employee_id()
EmployeeIdFree(v) == ~EmployeeIdExists(v)

StudentIdFree_any(v) == TRUE
\* the test of the loop in generate_student_id()
StudentIdFree(v) == ~StudentIdExists(v)

----------------------------------------------------------------------------
\* Actions.

\* User(...).save() of a new instance
UserCreate(role, emp, std) ==
    /\ pc = "idle"
    /\ Len(users) < MaxUsers
    /\ save(NewUser(role, emp, std))
    /\ UNCHANGED <<profiles, now>>

\* one turn of the loop of generate_employee_id(): a draw, the existence
\* check, and on success the return into save() and its super().save()
GenerateEmployeeId ==
    /\ pc = "generate_employee_id"
    /\ \E n \in RandInts :
          LET emp_id == FormatId("EMP", n) IN
          IF EmployeeIdFree(emp_id)
          THEN super_save([inst EXCEPT !.employee_id = emp_id])
          ELSE UNCHANGED <<users, pc, inst>>
    /\ UNCHANGED <<profiles, now>>

\* one turn of the loop of generate_student_id()
GenerateStudentId ==
    /\ pc = "generate_student_id"
    /\ \E n \in RandInts :
          LET std_id == FormatId("STD", n) IN
          IF StudentIdFree(std_id)
          THEN super_save([inst EXCEPT !.student_id = std_id])
          ELSE UNCHANGED <<users, pc, inst>>
    /\ UNCHANGED <<profiles, now>>

\* a request that changes the role of a stored user (or nothing) and saves
UserUpdate(pk, role) ==
    /\ pc = "idle"
    /\ pk \in DOMAIN users
    /\ save([users[pk] EXCEPT !.role = role])
    /\ UNCHANGED <<profiles, now>>

UserSoftDelete_cascade(pk) ==
    /\ pc = "idle"
    /\ pk \in DOMAIN users
    /\ save(soft_delete_fields(users[pk]))
    /\ profiles' = [i \in DOMAIN profiles |->
                      IF profiles[i].user = pk
                      THEN soft_delete_fields(profiles[i]) ELSE profiles[i]]
    /\ UNCHANGED now
\* user.soft_delete() on a stored user: the mixin's method, saving through
\* User.save()
UserSoftDelete(pk) ==
    /\ pc = "idle"
    /\ pk \in DOMAIN users
    /\ save(soft_delete_fields(users[pk]))
    /\ UNCHANGED <<profiles, now>>

\* user.restore() on a stored user
UserRestore(pk) ==
    /\ pc = "idle"
    /\ pk \in DOMAIN users
    /\ save(restore_fields(users[pk]))
    /\ UNCHANGED <<profiles, now>>

\* the OneToOneField of a profile: one row for each user in each profile table
OneToOneOk(self) ==
    \A i \in DOMAIN profiles :
        i # self.pk => ~(profiles[i].kind = self.kind /\ profiles[i].user = self.user)

\* Model.save() of a profile: INSERT without pk, UPDATE with one; an
\* IntegrityError leaves the table as it was
profile_save(self) ==
    profiles' = IF ~OneToOneOk(self) THEN profiles
                ELSE IF self.pk = 0
                     THEN Append(profiles, [self EXCEPT !.pk = Len(profiles) + 1])
                     ELSE [profiles EXCEPT ![self.pk] = self]

\* UserProfile / StudentProfile / TeacherProfile (user=u).save()
ProfileCreate(kind, user) ==
    /\ pc = "idle"
    /\ Len(profiles) < MaxProfiles
    /\ user \in DOMAIN users
    /\ profile_save(NewProfile(kind, user))
    /\ UNCHANGED <<users, now, pc, inst>>

\* profile.save() with no field changed
ProfileUpdate(pk) ==
    /\ pc = "idle"
    /\ pk \in DOMAIN profiles
    /\ profile_save(profiles[pk])
    /\ UNCHANGED <<users, now, pc, inst>>

\* profile.soft_delete()
ProfileSoftDelete(pk) ==
    /\ pc = "idle"
    /\ pk \in DOMAIN profiles
    /\ profile_save(soft_delete_fields(profiles[pk]))
    /\ UNCHANGED <<users, now, pc, inst>>

\* profile.restore()
ProfileRestore(pk) ==
    /\ pc = "idle"
    /\ pk \in DOMAIN profiles
    /\ profile_save(restore_fields(profiles[pk]))
    /\ UNCHANGED <<users, now, pc, inst>>

\* the clock advances
Tick ==
    /\ now < MaxTime
    /\ now' = now + 1
    /\ UNCHANGED <<users, profiles, pc, inst>>

----------------------------------------------------------------------------
\* Specifications.

Init ==
    /\ users = <<>>
    /\ profiles = <<>>
    /\ now = 0
    /\ pc = "idle"
    /\ inst = NoInst

\* Identifier generation: first saves of new users, with every combination
\* of role and caller-given identifiers.
Next ==
    \/ \E role \in ROLE_CHOICES, emp \in CallerEmployeeIds, std \in CallerStudentIds :
          UserCreate(role, emp, std)
    \/ GenerateEmployeeId
    \/ GenerateStudentId

Spec == Init /\ [][Next]_vars

\* The generators alone: first saves whose caller leaves the other
\* identifier at its default, and gives the selected one or leaves it empty.
NextGenerate ==
    \/ \E role \in EmployeeRoles, emp \in CallerEmployeeIds :
          UserCreate(role, emp, None)
    \/ \E std \in CallerStudentIds : UserCreate("student", None, std)
    \/ GenerateEmployeeId
    \/ GenerateStudentId

\* The draws of random.randint are fair: a loop that can return on some
\* value does not miss that value for ever.
SpecFair ==
    /\ Init /\ [][NextGenerate]_vars
    /\ WF_vars(GenerateEmployeeId) /\ WF_vars(GenerateStudentId)

\* the roles of the update requests: one that selects employee_id and the
\* one that selects student_id
UpdateRoles == {"teacher", "student"}

\* The life of stored users: created with the identifiers left to the
\* generators, then updated, soft-deleted and restored.
NextUpdate ==
    \/ \E role \in UpdateRoles : UserCreate(role, None, None)
    \/ GenerateEmployeeId
    \/ GenerateStudentId
    \/ \E pk \in 1..MaxUsers, role \in UpdateRoles : UserUpdate(pk, role)
    \/ \E pk \in 1..MaxUsers : UserSoftDelete(pk)
    \/ \E pk \in 1..MaxUsers : UserRestore(pk)

SpecUpdate == Init /\ [][NextUpdate]_vars

\* Soft delete over users and their profiles: users made by User() with
\* every field at its default, profiles of the three kinds.
NextSoftDelete ==
    \/ (Len(users) < MaxOwners /\ UserCreate(DefaultRole, None, None))
    \/ GenerateStudentId
    \/ \E kind \in ProfileKinds, user \in 1..MaxUsers : ProfileCreate(kind, user)
    \/ \E pk \in 1..MaxUsers : UserSoftDelete(pk)
    \/ \E pk \in 1..MaxUsers : UserRestore(pk)
    \/ \E pk \in 1..MaxUsers : UserUpdate(pk, users[pk].role)
    \/ \E pk \in 1..MaxProfiles : ProfileSoftDelete(pk)
    \/ \E pk \in 1..MaxProfiles : ProfileRestore(pk)
    \/ \E pk \in 1..MaxProfiles : ProfileUpdate(pk)
    \/ Tick

SpecSoftDelete == Init /\ [][NextSoftDelete]_vars

----------------------------------------------------------------------------
\* Helpers of the properties.

RowFlags(table, pk) == <<table[pk].is_deleted, table[pk].deleted_at>>
Last(table) == table[Len(table)]
Inserted(old, new) == Len(new) = Len(old) + 1
HeldEmployeeIds == {users[i].employee_id : i \in DOMAIN users}
HeldStudentIds == {users[i].student_id : i \in DOMAIN users}
AllEmployeeIdsTaken == \A n \in RandInts : FormatId("EMP", n) \in HeldEmployeeIds
AllStudentIdsTaken == \A n \in RandInts : FormatId("STD", n) \in HeldStudentIds

----------------------------------------------------------------------------
\* C1  Identifier uniqueness.

C1_Distinct ==
    \A i, j \in DOMAIN users :
        i # j =>
            /\ (users[i].employee_id # None
                    => users[i].employee_id # users[j].employee_id)
            /\ (users[i].student_id # None
                    => users[i].student_id # users[j].student_id)

\* a generator that returns stores its user: the generated identifier never
\* runs into the unique constraint (only a caller-given other identifier can)
C1_GeneratedIsStored ==
    /\ (/\ pc = "generate_employee_id" /\ pc' = "idle"
        /\ (inst.student_id = None \/ inst.student_id \notin HeldStudentIds))
            => /\ Inserted(users, users')
               /\ Last(users').employee_id \notin HeldEmployeeIds
    /\ (/\ pc = "generate_student_id" /\ pc' = "idle"
        /\ (inst.employee_id = None \/ inst.employee_id \notin HeldEmployeeIds))
            => /\ Inserted(users, users')
               /\ Last(users').student_id \notin HeldStudentIds

\* C1: after any sequence of first saves no two stored users hold the same
\* employee_id and no two hold the same student_id, and every user whose
\* identifier was generated is stored with an identifier no other row holds,
\* so N users of one role carry N distinct identifiers.
C1_IdentifierUniqueness == [](C1_Distinct) /\ [][C1_GeneratedIsStored]_vars

\* two stored users of one role, their generated identifiers distinct
C1_Witness ==
    \E i, j \in DOMAIN users :
        /\ i # j
        /\ users[i].role = "teacher" /\ users[j].role = "teacher"
        /\ users[i].employee_id = "EMP10000"
        /\ users[j].employee_id = "EMP10001"

----------------------------------------------------------------------------
\* C2  Identifier immutability.

C2_StoredIdsKept ==
    \A pk \in DOMAIN users :
        /\ pk \in DOMAIN users'
        /\ users'[pk].employee_id = users[pk].employee_id
        /\ users'[pk].student_id = users[pk].student_id

\* C2: every step (plain update, role change, soft_delete(), restore(), and
\* the first saves of other users) leaves both identifiers of every stored
\* user as they were stored at its first save.
C2_IdentifierImmutability == [][C2_StoredIdsKept]_vars

\* a user stored as a student, later made a teacher and soft-deleted, still
\* holding its student_id and no employee_id
C2_Witness ==
    \E pk \in DOMAIN users :
        /\ users[pk].role = "teacher"
        /\ users[pk].student_id = "STD10001"
        /\ users[pk].employee_id = None
        /\ users[pk].is_deleted

----------------------------------------------------------------------------
\* C3  What the first save populates.

C3_LoopEntered ==
    /\ pc = "generate_employee_id"
          => /\ inst.pk = 0
             /\ inst.role \in {"superadmin", "admin", "teacher"}
             /\ inst.employee_id \in {None, ""}
    /\ pc = "generate_student_id"
          => /\ inst.pk = 0
             /\ inst.role = "student"
             /\ inst.student_id \in {None, ""}

C3_Stored ==
    \A i \in DOMAIN users :
        /\ users[i].role \in {"superadmin", "admin", "teacher"}
              => users[i].employee_id \notin {None, ""}
        /\ users[i].role = "student"
              => users[i].student_id \notin {None, ""}

C3_FirstSave ==
    /\ \A role \in ROLE_CHOICES, emp \in CallerEmployeeIds, std \in CallerStudentIds :
          UserCreate(role, emp, std) =>
             \/ /\ pc' = "idle"
                /\ IF role = "student" THEN std \notin {None, ""}
                                       ELSE emp \notin {None, ""}
                /\ Inserted(users, users') =>
                      /\ Last(users').role = role
                      /\ Last(users').employee_id = emp
                      /\ Last(users').student_id = std
             \/ /\ pc' # "idle"
                /\ inst' = NewUser(role, emp, std)
                /\ users' = users
    /\ (pc = "generate_employee_id" /\ Inserted(users, users')) =>
          /\ \E n \in RandInts :
                /\ n \in 10000..99999
                /\ Last(users').employee_id = "EMP" \o ToString(n)
          /\ Last(users').student_id = inst.student_id
          /\ Last(users').role = inst.role
    /\ (pc = "generate_student_id" /\ Inserted(users, users')) =>
          /\ \E n \in RandInts :
                /\ n \in 10000..99999
                /\ Last(users').student_id = "STD" \o ToString(n)
          /\ Last(users').employee_id = inst.employee_id
          /\ Last(users').role = inst.role

----------------------------------------------------------------------------
\* C8  Role predicates.

\* C8: for every declared role, and so for every stored user,
\* is_admin_role(), is_teacher_role() and is_student_role() hold exactly for
\* admin, teacher and student, at most one of the four predicates holds, and
\* is_superuser_role() holds for none, superadmin included.
C8_RolePredicates ==
    /\ \A i \in DOMAIN users : users[i].role \in ROLE_CHOICES
    /\ \A u \in {users[i] : i \in DOMAIN users}
              \cup {NewUser(r, None, None) : r \in ROLE_CHOICES} :
          /\ is_admin_role(u) <=> u.role = "admin"
          /\ is_teacher_role(u) <=> u.role = "teacher"
          /\ is_student_role(u) <=> u.role = "student"
          /\ ~is_superuser_role(u)
          /\ Cardinality({p \in {"superuser", "admin", "teacher", "student"} :
                CASE p = "superuser" -> is_superuser_role(u)
                  [] p = "admin" -> is_admin_role(u)
                  [] p = "teacher" -> is_teacher_role(u)
                  [] p = "student" -> is_student_role(u)}) <= 1

\* a stored superadmin, for whom is_superuser_role() is false, beside a student
C8_Witness ==
    /\ Len(users) >= 2
    /\ \E i \in DOMAIN users : users[i].role = "superadmin"
    /\ \E i \in DOMAIN users : users[i].role = "student"

----------------------------------------------------------------------------
\* C9  Termination of identifier generation.

C9_Returns ==
    /\ (pc = "generate_employee_id" /\ ~AllEmployeeIdsTaken) ~> (pc = "idle")
    /\ (pc = "generate_student_id" /\ ~AllStudentIdsTaken) ~> (pc = "idle")

C9_ReturnedWasFree ==
    /\ (pc = "generate_employee_id" /\ Inserted(users, users'))
          => Last(users').employee_id \notin HeldEmployeeIds
    /\ (pc = "generate_student_id" /\ Inserted(users, users'))
          => Last(users').student_id \notin HeldStudentIds

C9_NeverReturnsWhenFull ==
    /\ (pc = "generate_employee_id" /\ AllEmployeeIdsTaken)
          => (pc' = "generate_employee_id" /\ users' = users)
    /\ (pc = "generate_student_id" /\ AllStudentIdsTaken)
          => (pc' = "generate_student_id" /\ users' = users)

\* C9: under fair draws a generator that has a free candidate returns; the
\* identifier it returns, once stored, is one no row held when it was
\* checked; and with every candidate taken the generator stays in its loop
\* for ever.
C9_GenerationTermination ==
    /\ C9_Returns
    /\ [][C9_ReturnedWasFree /\ C9_NeverReturnsWhenFull]_vars

\* generate_employee_id() running with every candidate held by a stored user
C9_Witness ==
    /\ pc = "generate_employee_id"
    /\ AllEmployeeIdsTaken
    /\ \E i \in DOMAIN users :
          users[i].role = "teacher" /\ users[i].employee_id = "EMP10001"

----------------------------------------------------------------------------
\* C6  The User model and the soft-delete mixin.

\* C6 as stated: no User row is ever soft-deleted; the flag pair of every
\* stored user stays at its default.
C6_UserNeverSoftDeleted ==
    \A pk \in DOMAIN users :
        users[pk].is_deleted = FALSE /\ users[pk].deleted_at = NullTime

C6_UserSoftDeleteActs ==
    \A pk \in DOMAIN users :
        /\ UserSoftDelete(pk) =>
              /\ users'[pk].is_deleted = TRUE
              /\ users'[pk].deleted_at = <<now>>
        /\ UserRestore(pk) =>
              /\ users'[pk].is_deleted = FALSE
              /\ users'[pk].deleted_at = NullTime

\* C6 amended: User inherits the mixin through BaseModel; soft_delete() on a
\* stored user stores is_deleted = TRUE and deleted_at = now for it, and
\* restore() stores FALSE and null, so a User reaches the soft-deleted state
\* as a profile does.
C6_UserIsSoftDeletable == [][C6_UserSoftDeleteActs]_vars

\* a stored user in the soft-deleted state
C6_Witness ==
    \E pk \in DOMAIN users :
        /\ users[pk].is_deleted = TRUE
        /\ users[pk].deleted_at # NullTime
        /\ users[pk].employee_id = "EMP10000"

----------------------------------------------------------------------------
\* C4, C5, C7, C10  Soft delete.

Tables == <<users, profiles>>
Flags == BOOLEAN \X ({NullTime} \cup {<<t>> : t \in 0..MaxTime})

C4_RoundTrip ==
    \A k \in 1..2 : \A pk \in DOMAIN Tables[k] : \A f \in Flags :
        LET before == [Tables[k][pk] EXCEPT !.is_deleted = f[1], !.deleted_at = f[2]]
            deleted == soft_delete_fields(before)
            after == restore_fields(deleted)
        IN  /\ deleted.is_deleted = TRUE
            /\ deleted.deleted_at = <<now>>
            /\ after.is_deleted = FALSE
            /\ after.deleted_at = NullTime
            /\ after = [before EXCEPT !.is_deleted = FALSE, !.deleted_at = NullTime]

C4_Persists ==
    /\ \A pk \in DOMAIN users :
          /\ UserSoftDelete(pk) => RowFlags(users', pk) = <<TRUE, <<now>>>>
          /\ UserRestore(pk) => RowFlags(users', pk) = <<FALSE, NullTime>>
    /\ \A pk \in DOMAIN profiles :
          /\ ProfileSoftDelete(pk) => RowFlags(profiles', pk) = <<TRUE, <<now>>>>
          /\ ProfileRestore(pk) => RowFlags(profiles', pk) = <<FALSE, NullTime>>

\* C4: soft_delete() stores is_deleted = TRUE and deleted_at = now for its
\* record; restore() after soft_delete() stores FALSE and null, whatever the
\* two fields were before the two calls, and changes no other field.
C4_SoftDeleteRoundTrip == [](C4_RoundTrip) /\ [][C4_Persists]_vars

\* a profile soft-deleted at the current time, after the clock moved, its
\* user not deleted
C4_Witness ==
    /\ now > 0
    /\ \E p \in DOMAIN profiles :
          /\ profiles[p].is_deleted
          /\ profiles[p].deleted_at = <<now>>
          /\ ~users[profiles[p].user].is_deleted

C5_Partition ==
    \A k \in 1..2 :
        LET active == ActiveManager_get_queryset(Tables[k])
            deleted == DeletedManager_get_queryset(Tables[k])
        IN  /\ active = {i \in DOMAIN Tables[k] : ~Tables[k][i].is_deleted}
            /\ deleted = {i \in DOMAIN Tables[k] : Tables[k][i].is_deleted}
            /\ active \cap deleted = {}
            /\ active \cup deleted = DOMAIN Tables[k]

C5_Moves ==
    /\ \A pk \in DOMAIN users :
          /\ (/\ pk \in ActiveManager_get_queryset(users)
              /\ pk \in DeletedManager_get_queryset(users')) => UserSoftDelete(pk)
          /\ (/\ pk \in DeletedManager_get_queryset(users)
              /\ pk \in ActiveManager_get_queryset(users')) => UserRestore(pk)
          /\ UserSoftDelete(pk) => pk \in DeletedManager_get_queryset(users')
          /\ UserRestore(pk) => pk \in ActiveManager_get_queryset(users')
    /\ \A pk \in DOMAIN profiles :
          /\ (/\ pk \in ActiveManager_get_queryset(profiles)
              /\ pk \in DeletedManager_get_queryset(profiles')) => ProfileSoftDelete(pk)
          /\ (/\ pk \in DeletedManager_get_queryset(profiles)
              /\ pk \in ActiveManager_get_queryset(profiles')) => ProfileRestore(pk)
          /\ ProfileSoftDelete(pk) => pk \in DeletedManager_get_queryset(profiles')
          /\ ProfileRestore(pk) => pk \in ActiveManager_get_queryset(profiles')

C7_OnlyItsRecord ==
    /\ \A pk \in DOMAIN users :
          (UserSoftDelete(pk) \/ UserRestore(pk)) =>
             /\ \A p \in DOMAIN profiles :
                   /\ p \in DOMAIN profiles'
                   /\ RowFlags(profiles', p) = RowFlags(profiles, p)
             /\ \A q \in DOMAIN users :
                   q # pk => RowFlags(users', q) = RowFlags(users, q)
    /\ \A pk \in DOMAIN profiles :
          (ProfileSoftDelete(pk) \/ ProfileRestore(pk)) =>
             /\ \A q \in DOMAIN users :
                   /\ q \in DOMAIN users'
                   /\ RowFlags(users', q) = RowFlags(users, q)
             /\ \A p \in DOMAIN profiles :
                   p # pk => RowFlags(profiles', p) = RowFlags(profiles, p)

\* C7: soft_delete() and restore() of one record leave is_deleted and
\* deleted_at of every other row as they were: the profiles of a user when
\* the user is the record, the user and the other profiles when a profile is.
C7_NoCascade == [][C7_OnlyItsRecord]_vars

\* a soft-deleted user whose profile is still active
C7_Witness ==
    \E p \in DOMAIN profiles :
        /\ users[profiles[p].user].is_deleted
        /\ ~profiles[p].is_deleted

\* C10: every row made with the default fields and changed only by
\* soft_delete(), restore() and plain saves has is_deleted = TRUE exactly
\* when deleted_at is set.
C10_FlagPairConsistency ==
    \A k \in 1..2 : \A pk \in DOMAIN Tables[k] :
        Tables[k][pk].is_deleted <=> Tables[k][pk].deleted_at # NullTime

\* a soft-deleted profile carrying its timestamp beside a user that is not
\* deleted and carries none
C10_Witness ==
    /\ \E p \in DOMAIN profiles :
          profiles[p].is_deleted /\ profiles[p].deleted_at = <<1>>
    /\ \E pk \in DOMAIN users :
          ~users[pk].is_deleted /\ users[pk].deleted_at = NullTime

====
